---- MODULE Spec2Model ----
(***************************************************************************)
(* State-machine model of the couples task board (App.tsx): the board      *)
(* store, the info list store, their local-storage records, the 60 s due   *)
(* notification timer and the derived due status / weekly load share.      *)
(*                                                                         *)
(* Time is in milliseconds.  Instant 0 is a Monday 00:00:00.000 local      *)
(* time; the local time zone has a fixed offset.  An optional field of a   *)
(* card is Missing when the key is absent and Undef when the key is        *)
(* present with the value undefined (JSON.stringify drops such a key).     *)
(* Strings typed by the user are sequences of characters.                  *)
(***************************************************************************)
EXTENDS Integers, Sequences, FiniteSets, Bags, TLC

(* ------------------------------ bounds -------------------------------- *)
\* distinct values uid() returns for cards
MaxNewCards == 1
\* clock steps (of StepMs) after the first page load
MaxSteps == 4
\* handlers the user sets off after the first page load
MaxOps == 3
\* items the info form may add to one list
MaxNewInfo == 1

(* ------------------------- program constants -------------------------- *)
SecondMs == 1000
DayMs == SecondMs * 60 * 60 * 24
HourMs == SecondMs * 60 * 60
PollMs == 60000
WeekMs == 7 * DayMs
\* granularity of the model's clock: half a polling period
StepMs == PollMs \div 2

Missing == -1
Undef == -2
NoAssignee == "missing"
UndefAssignee == "undefined"
NoDone == "missing"

(* ------------------------------ strings ------------------------------- *)
Whitespace == {" ", "\t", "\n"}

RECURSIVE TrimStart(_)
TrimStart(s) ==
  IF s # <<>> /\ Head(s) \in Whitespace THEN TrimStart(Tail(s)) ELSE s

RECURSIVE TrimEnd(_)
TrimEnd(s) ==
  IF s # <<>> /\ s[Len(s)] \in Whitespace
  THEN TrimEnd(SubSeq(s, 1, Len(s) - 1)) ELSE s

\* String.prototype.trim
Trim(s) == TrimEnd(TrimStart(s))

(* ------------------------------ sequences ----------------------------- *)
Range(s) == {s[i] : i \in 1..Len(s)}

\* Array.prototype.filter((id) => id !== x)
RECURSIVE Without(_, _)
Without(s, x) ==
  IF s = <<>> THEN <<>>
  ELSE IF Head(s) = x THEN Without(Tail(s), x)
       ELSE <<Head(s)>> \o Without(Tail(s), x)

\* Array.prototype.indexOf, 0-based, -1 when absent
RECURSIVE IndexFrom(_, _, _)
IndexFrom(s, x, i) ==
  IF i > Len(s) THEN -1
  ELSE IF s[i] = x THEN i - 1 ELSE IndexFrom(s, x, i + 1)
IndexOf(s, x) == IndexFrom(s, x, 1)

RECURSIVE Count(_, _)
Count(s, x) ==
  IF s = <<>> THEN 0
  ELSE (IF Head(s) = x THEN 1 ELSE 0) + Count(Tail(s), x)

(* ------------------------------- cards -------------------------------- *)
ColumnIds == {"todo", "doing", "done"}
SeedIds == {"c1", "c2", "c3"}
NewIdNames == <<"n1", "n2", "n3", "n4">>
NewIds == {NewIdNames[i] : i \in 1..MaxNewCards}

\* truthiness of the optional fields, as the code tests them
IsDone(card) == card.done = "true"
HasDueDate(card) == card.dueDate >= 0
HasCompletedAt(card) == card.completedAt >= 0

\* mutant: a card due this very millisecond is not yet overdue
dueStatusStrict(card, now) ==
  IF ~HasDueDate(card) \/ IsDone(card) THEN "null"
  ELSE LET ms == card.dueDate - now
       IN IF ms < 0 THEN "overdue"
          ELSE IF ms <= SecondMs * 60 * 60 * 24 THEN "soon"
          ELSE "null"

\* dueStatus(card), with Date.now() passed in as now
dueStatus(card, now) ==
  IF ~HasDueDate(card) \/ IsDone(card) THEN "null"
  ELSE LET ms == card.dueDate - now
       IN IF ms <= 0 THEN "overdue"
          ELSE IF ms <= SecondMs * 60 * 60 * 24 THEN "soon"
          ELSE "null"

(* ---------------------------- week window ----------------------------- *)
\* Date.prototype.getDay: 0 = Sunday .. 6 = Saturday (instant 0 is a Monday)
GetDay(t) == ((t \div DayMs) + 1) % 7
\* setHours(0, 0, 0, 0)
StartOfDay(t) == t - (t % DayMs)

weekRange(ref) ==
  LET day == GetDay(ref)
      diffToMon == (day + 6) % 7
      start == StartOfDay(ref) - diffToMon * DayMs
      end == StartOfDay(start + 6 * DayMs)
             + 23 * HourMs + 59 * 60 * SecondMs + 59 * SecondMs + 999
  IN [start |-> start, end |-> end]

\* Math.round(n / d * 100) for 0 <= n <= d, d > 0: halves round up
RoundPct(n, d) == (200 * n + d) \div (2 * d)

\* mutant: a card completed in the last millisecond of the week is left out
CountsForOpenEnd(card, who, range) ==
  /\ IsDone(card)
  /\ HasCompletedAt(card)
  /\ ~(card.completedAt < range.start \/ card.completedAt >= range.end)
  /\ card.assignee = who

\* the forEach of weeklyStats: does this card add to me / partner?
CountsFor(card, who, range) ==
  /\ IsDone(card)
  /\ HasCompletedAt(card)
  /\ ~(card.completedAt < range.start \/ card.completedAt > range.end)
  /\ card.assignee = who

\* mutant: the partner's share is 100 - mePct even when nothing was completed
weeklyStatsNoZeroCase(b, ref) ==
  LET range == weekRange(ref)
      me == Cardinality({id \in DOMAIN b.cards : CountsFor(b.cards[id], "Me", range)})
      partner ==
        Cardinality({id \in DOMAIN b.cards : CountsFor(b.cards[id], "Partner", range)})
      total == me + partner
      mePct == IF total # 0 THEN RoundPct(me, total) ELSE 0
  IN [me |-> me, partner |-> partner, total |-> total, mePct |-> mePct,
      partnerPct |-> 100 - mePct, start |-> range.start, end |-> range.end]

weeklyStats(b, ref) ==
  LET range == weekRange(ref)
      me == Cardinality({id \in DOMAIN b.cards : CountsFor(b.cards[id], "Me", range)})
      partner ==
        Cardinality({id \in DOMAIN b.cards : CountsFor(b.cards[id], "Partner", range)})
      total == me + partner
      mePct == IF total # 0 THEN RoundPct(me, total) ELSE 0
      partnerPct == IF total # 0 THEN 100 - mePct ELSE 0
  IN [me |-> me, partner |-> partner, total |-> total, mePct |-> mePct,
      partnerPct |-> partnerPct, start |-> range.start, end |-> range.end]

(* ------------------------------ the board ----------------------------- *)
\* initialState, built when the module is loaded at instant load
initialState(load) ==
  [cards |->
     [id \in SeedIds |->
        CASE id = "c1" ->
               [id |-> "c1", title |-> <<"Book dentist">>, assignee |-> "Partner",
                dueDate |-> load + SecondMs * 60 * 60 * 20,
                done |-> NoDone, completedAt |-> Missing]
          [] id = "c2" ->
               [id |-> "c2", title |-> <<"Plan date night">>, assignee |-> "Me",
                dueDate |-> Missing, done |-> NoDone, completedAt |-> Missing]
          [] id = "c3" ->
               [id |-> "c3", title |-> <<"Order groceries">>, assignee |-> NoAssignee,
                dueDate |-> load + SecondMs * 60 * 60 * 2,
                done |-> NoDone, completedAt |-> Missing]],
   columns |->
     [c \in ColumnIds |->
        CASE c = "todo" -> [id |-> "todo", cardIds |-> <<"c1", "c3">>]
          [] c = "doing" -> [id |-> "doing", cardIds |-> <<"c2">>]
          [] c = "done" -> [id |-> "done", cardIds |-> <<>>]],
   columnOrder |-> <<"todo", "doing", "done">>]

\* the state updater of addCard: prev with the card put in front of columnId
AddCardUpdate(prev, columnId, card) ==
  [prev EXCEPT
     !.cards = [id \in DOMAIN prev.cards \cup {card.id} |->
                  IF id = card.id THEN card ELSE prev.cards[id]],
     !.columns[columnId].cardIds = <<card.id>> \o prev.columns[columnId].cardIds]

\* the card addCard builds from the form: title, assignee ("" = none), due
\* (Missing = the empty date field)
NewCard(id, newTitle, assignee, due) ==
  [id |-> id, title |-> Trim(newTitle),
   assignee |-> IF assignee = "" THEN UndefAssignee ELSE assignee,
   dueDate |-> IF due = Missing THEN Undef ELSE due,
   done |-> NoDone, completedAt |-> Missing]

\* mutant: completedAt survives the toggle back to not done
ToggleDoneKeepsCompletedAt(prev, cardId, now) ==
  LET nextDone == ~IsDone(prev.cards[cardId])
  IN [prev EXCEPT
        !.cards[cardId].done = IF nextDone THEN "true" ELSE "false",
        !.cards[cardId].completedAt = IF nextDone THEN now ELSE @]

\* mutant: the handler marks the card done instead of flipping the flag
ToggleDoneOnlySets(prev, cardId, now) ==
  [prev EXCEPT !.cards[cardId].done = "true", !.cards[cardId].completedAt = now]

\* the state updater of toggleDone, with new Date() passed in as now
ToggleDoneUpdate(prev, cardId, now) ==
  LET wasDone == IsDone(prev.cards[cardId])
      nextDone == ~wasDone
  IN [prev EXCEPT
        !.cards[cardId].done = IF nextDone THEN "true" ELSE "false",
        !.cards[cardId].completedAt = IF nextDone THEN now ELSE Undef]

\* moveCard's target: the index next to from in the column order
MoveTarget(order, from, direction) ==
  LET fromIndex == IndexOf(order, from)
  IN IF direction = "left" THEN fromIndex - 1 ELSE fromIndex + 1

\* mutant: the card is not taken out of the column it leaves
MoveCardKeepsSource(prev, cardId, from, to) ==
  [prev EXCEPT !.columns[to].cardIds = <<cardId>> \o prev.columns[to].cardIds]

\* the state updater of moveCard
MoveCardUpdate(prev, cardId, from, to) ==
  LET fromIds == Without(prev.columns[from].cardIds, cardId)
      toIds == <<cardId>> \o prev.columns[to].cardIds
  IN [prev EXCEPT !.columns[from].cardIds = fromIds,
                  !.columns[to].cardIds = toIds]

(* --------------------------- local storage ---------------------------- *)
\* JSON.parse(JSON.stringify(card)): keys whose value is undefined are dropped
JsonCard(card) ==
  [card EXCEPT
     !.assignee = IF @ = UndefAssignee THEN NoAssignee ELSE @,
     !.dueDate = IF @ = Undef THEN Missing ELSE @,
     !.completedAt = IF @ = Undef THEN Missing ELSE @]

JsonBoard(b) == [b EXCEPT !.cards = [id \in DOMAIN b.cards |-> JsonCard(b.cards[id])]]

\* what localStorage holds under one key: nothing, the empty string, text
\* that is no JSON, the JSON text null, or the JSON text of data
\* (kind: "absent", "empty", "garbage", "null" or "json")
\* a record without data carries this filler
NoData == <<>>
NoRecord == [kind |-> "absent", data |-> NoData]

\* loadState(key): null unless the record parses to a value other than null
loadState(rec) ==
  IF rec.kind = "absent" THEN [isNull |-> TRUE, value |-> rec.data]
  ELSE IF rec.kind = "empty" THEN [isNull |-> TRUE, value |-> rec.data]
  ELSE IF rec.kind = "garbage" THEN [isNull |-> TRUE, value |-> rec.data]
  ELSE IF rec.kind = "null" THEN [isNull |-> TRUE, value |-> rec.data]
  ELSE [isNull |-> FALSE, value |-> rec.data]

\* saveState(key, data) when setItem succeeds (ok) or throws: a throw leaves
\* the record as it was
saveState(rec, json, ok) == IF ok THEN [kind |-> "json", data |-> json] ELSE rec

(* ------------------------------ info list ----------------------------- *)
\* initialInfo, built when the module is loaded at instant load: its two ids
\* are drawn by uid() at that load
initialInfo(load) ==
  << [id |-> <<"seed", load, 1>>, label |-> <<"Pediatrician">>,
      detail |-> <<"Dr. Brown">>],
     [id |-> <<"seed", load, 2>>, label |-> <<"School Office">>,
      detail |-> <<"Greenwich Primary">>] >>

(* ------------------------------- state -------------------------------- *)
VARIABLES
  app,            \* "unloaded" | "mounted" | "crashed" (tree unmounted by an
                  \* error thrown from an effect)
  board,          \* useState board
  boardIsInitial, \* board is the very object initialState
  store,          \* localStorage record STORAGE_KEY
  info,           \* useState info
  infoIsInitial,  \* info is the very array initialInfo
  infoStore,      \* localStorage record INFO_KEY
  quotaTight,     \* local storage is near its quota: setItem may throw
  now,            \* wall clock
  origin,         \* instant of the first page load
  loadTime,       \* instant at which the running page's module was loaded
  lastScan,       \* instant of the last run of the interval callback, or of
                  \* the page load when it has not run yet
  renderedAt,     \* instant of the last commit that changed board
  nextTick,       \* instant at which the interval fires next
  notifiedIds,    \* notifiedIdsRef.current
  alerts,         \* bag of card ids: Notifications shown since notifiedIds
                  \* was last created or cleared
  permission,     \* "unavailable" | "default" | "granted" | "denied"
  last,           \* the handler that ran last and what it found
  ops             \* handlers the user has set off so far

vars == <<app, board, boardIsInitial, store, info, infoIsInitial, infoStore,
          quotaTight, now,
          origin, loadTime, lastScan, renderedAt, nextTick, notifiedIds, alerts,
          permission,
          last, ops>>

memory == <<board, boardIsInitial, info, infoIsInitial, loadTime, lastScan,
            renderedAt,
            nextTick, notifiedIds, alerts>>
boardSide == <<board, store, renderedAt, nextTick>>
infoSide == <<info, infoIsInitial, infoStore>>
clock == <<now, origin, quotaTight>>
\* the ways a call of setItem can end: TRUE it returns, FALSE it throws
WriteOutcomes == IF quotaTight THEN BOOLEAN ELSE {TRUE}

\* first page loads: a Monday 00:00:00.000 and a Sunday 23:59:59.999
Origins == {0, WeekMs - 1}
\* records found by the first page load (board, info)
FirstRecords == {<<"absent", "garbage">>, <<"garbage", "absent">>,
                 <<"empty", "null">>, <<"null", "empty">>}
\* offsets from now of the instants picked in the date field
DueOffsets == {PollMs + StepMs, DayMs, DayMs + 1}

\* last: the handler, whether it returned early, whether its writes to local
\* storage went through, and the kinds of the records a page load found
Event(op) ==
  [op |-> op, noop |-> FALSE, wrote |-> TRUE, boardRec |-> "none", infoRec |-> "none"]

\* a user action within the budget of the run
UserOp == ops < MaxOps /\ ops' = ops + 1

\* before the first page load, with the clock, the records and the permission
\* drawn from the given sets, and local storage near its quota or not
InitFrom(origins, records, permissions, tight) ==
  /\ app = "unloaded"
  /\ quotaTight = tight
  /\ origin \in origins
  /\ now = origin
  /\ \E k \in records :
       /\ store = [kind |-> k[1], data |-> NoData]
       /\ infoStore = [kind |-> k[2], data |-> NoData]
  /\ permission \in permissions
  /\ board = initialState(0)
  /\ boardIsInitial = FALSE
  /\ info = <<>>
  /\ infoIsInitial = FALSE
  /\ loadTime = origin
  /\ lastScan = origin
  /\ renderedAt = origin
  /\ nextTick = origin
  /\ notifiedIds = {}
  /\ alerts = EmptyBag
  /\ last = Event("none")
  /\ ops = 0

(* ------------------------------ lifecycle ----------------------------- *)
\* mutant: the board always starts from the seed
InitialBoardIgnoresRecord(rec, t) == initialState(t)

\* loadState<BoardState>(STORAGE_KEY) ?? initialState, at a load at instant t
InitialBoard(rec, t) ==
  IF loadState(rec).isNull THEN initialState(t) ELSE loadState(rec).value

\* loadState<InfoItem[]>(INFO_KEY) ?? initialInfo
InitialInfo(rec, t) ==
  IF loadState(rec).isNull THEN initialInfo(t) ELSE loadState(rec).value

\* page load: module evaluation, first render (the useState initialisers),
\* then the effects: both saves and the interval
Start ==
  /\ app = "unloaded"
  /\ LET b == InitialBoard(store, now)
         i == InitialInfo(infoStore, now)
     IN /\ board' = b
        /\ boardIsInitial' = loadState(store).isNull
        /\ info' = i
        /\ infoIsInitial' = loadState(infoStore).isNull
        /\ \E okB, okI \in WriteOutcomes :
             /\ store' = saveState(store, JsonBoard(b), okB)
             /\ infoStore' = saveState(infoStore, i, okI)
             /\ app' = IF okB /\ okI THEN "mounted" ELSE "crashed"
             /\ last' = [Event("start") EXCEPT !.wrote = okB /\ okI,
                                               !.boardRec = store.kind,
                                               !.infoRec = infoStore.kind]
  /\ loadTime' = now
  /\ lastScan' = now
  /\ renderedAt' = now
  /\ nextTick' = now + PollMs
  /\ notifiedIds' = {}
  /\ alerts' = EmptyBag
  /\ UNCHANGED <<clock, permission, ops>>

\* the page is closed or reloaded
Unload ==
  /\ app \in {"mounted", "crashed"}
  /\ UserOp
  /\ app' = "unloaded"
  /\ last' = Event("unload")
  /\ UNCHANGED <<memory, store, infoStore, clock, permission>>

(* ---------------------------- board handlers -------------------------- *)
\* a commit that changed board: the save effect and the interval effect (both
\* have deps [board]) run again, weeklyStats is recomputed
CommitBoard(op, b, rec, ok) ==
  /\ last' = [Event(op) EXCEPT !.wrote = ok]
  /\ board' = b
  /\ store' = saveState(rec, JsonBoard(b), ok)
  /\ app' = IF ok THEN "mounted" ELSE "crashed"
  /\ renderedAt' = now
  /\ nextTick' = now + PollMs

\* uid(): seven base-36 digits of Math.random(), drawn without a look at the
\* ids in use; the values it may return for a card
uid == NewIds

\* mutant: the title is tested without trimming it
TitleRejectedUntrimmed(newTitle) == newTitle = <<>>

\* the early return of addCard
TitleRejected(newTitle) == Trim(newTitle) = <<>>

addCard(columnId, newTitle, assignee, due) ==
  /\ app = "mounted"
  /\ UserOp
  /\ IF TitleRejected(newTitle)
     THEN /\ last' = [Event("addCard") EXCEPT !.noop = TRUE]
          /\ UNCHANGED <<app, boardSide, boardIsInitial>>
     ELSE /\ \E id \in uid, ok \in WriteOutcomes :
               CommitBoard("addCard",
                           AddCardUpdate(board, columnId,
                                         NewCard(id, newTitle, assignee, due)),
                           store, ok)
          /\ boardIsInitial' = FALSE
  /\ UNCHANGED <<infoSide, clock, loadTime, lastScan, notifiedIds, alerts, permission>>

toggleDone(cardId) ==
  /\ app = "mounted"
  /\ UserOp
  /\ \E ok \in WriteOutcomes :
       CommitBoard("toggleDone", ToggleDoneUpdate(board, cardId, now), store, ok)
  /\ boardIsInitial' = FALSE
  /\ UNCHANGED <<infoSide, clock, loadTime, lastScan, notifiedIds, alerts, permission>>

moveCard(cardId, from, direction) ==
  /\ app = "mounted"
  /\ UserOp
  /\ LET order == board.columnOrder
         toIndex == MoveTarget(order, from, direction)
     IN IF toIndex < 0 \/ toIndex >= Len(order)
        THEN /\ last' = [Event("moveCard") EXCEPT !.noop = TRUE]
             /\ UNCHANGED <<app, boardSide, boardIsInitial>>
        ELSE /\ \E ok \in WriteOutcomes :
                  CommitBoard("moveCard",
                              MoveCardUpdate(board, cardId, from, order[toIndex + 1]),
                              store, ok)
             /\ boardIsInitial' = FALSE
  /\ UNCHANGED <<infoSide, clock, loadTime, lastScan, notifiedIds, alerts, permission>>

\* mutant: the reset leaves notifiedIds as it is
clearBoardKeepsSeen ==
  /\ app = "mounted"
  /\ UserOp
  /\ UNCHANGED <<notifiedIds, alerts>>
  /\ IF boardIsInitial
     THEN /\ store' = NoRecord
          /\ last' = [Event("clearBoard") EXCEPT !.noop = TRUE]
          /\ UNCHANGED <<app, board, renderedAt, nextTick>>
     ELSE \E ok \in WriteOutcomes :
            CommitBoard("clearBoard", initialState(loadTime), NoRecord, ok)
  /\ boardIsInitial' = TRUE
  /\ UNCHANGED <<infoSide, clock, loadTime, lastScan, permission>>

clearBoard ==
  /\ app = "mounted"
  /\ UserOp
  /\ notifiedIds' = {}
  /\ alerts' = EmptyBag
  /\ IF boardIsInitial
     THEN \* setBoard(initialState) with board === initialState: no render
          /\ store' = NoRecord
          /\ last' = [Event("clearBoard") EXCEPT !.noop = TRUE]
          /\ UNCHANGED <<app, board, renderedAt, nextTick>>
     ELSE \E ok \in WriteOutcomes :
            CommitBoard("clearBoard", initialState(loadTime), NoRecord, ok)
  /\ boardIsInitial' = TRUE
  /\ UNCHANGED <<infoSide, clock, loadTime, lastScan, permission>>

(* ----------------------------- info handlers -------------------------- *)
\* a commit that changed info: the save effect with deps [info] runs again
CommitInfo(op, i, rec, ok) ==
  /\ last' = [Event(op) EXCEPT !.wrote = ok]
  /\ info' = i
  /\ infoStore' = saveState(rec, i, ok)
  /\ app' = IF ok THEN "mounted" ELSE "crashed"

\* the values uid() may return for a new item, again whatever ids are in use
NewInfoIds == {<<"new", 0, k>> : k \in 1..MaxNewInfo}
InfoIdsOf(i) == {i[k].id : k \in 1..Len(i)}

\* the early return of addInfo
InfoRejected(label, detail) == Trim(label) = <<>> \/ Trim(detail) = <<>>

\* prev.filter((x) => x.id !== id)
RECURSIVE WithoutId(_, _)
WithoutId(i, id) ==
  IF i = <<>> THEN <<>>
  ELSE IF Head(i).id = id THEN WithoutId(Tail(i), id)
       ELSE <<Head(i)>> \o WithoutId(Tail(i), id)

addInfo(label, detail) ==
  /\ app = "mounted"
  /\ UserOp
  /\ IF InfoRejected(label, detail)
     THEN /\ last' = [Event("addInfo") EXCEPT !.noop = TRUE]
          /\ UNCHANGED <<app, infoSide>>
     ELSE /\ \E id \in NewInfoIds, ok \in WriteOutcomes :
               CommitInfo("addInfo",
                          <<[id |-> id, label |-> Trim(label),
                             detail |-> Trim(detail)]>> \o info,
                          infoStore, ok)
          /\ infoIsInitial' = FALSE
  /\ UNCHANGED <<boardSide, boardIsInitial, clock, loadTime, lastScan, notifiedIds, alerts,
                 permission>>

deleteInfo(id) ==
  /\ app = "mounted"
  /\ UserOp
  /\ \E ok \in WriteOutcomes : CommitInfo("deleteInfo", WithoutId(info, id), infoStore, ok)
  /\ infoIsInitial' = FALSE
  /\ UNCHANGED <<boardSide, boardIsInitial, clock, loadTime, lastScan, notifiedIds, alerts,
                 permission>>

resetInfo ==
  /\ app = "mounted"
  /\ UserOp
  /\ IF infoIsInitial
     THEN /\ infoStore' = NoRecord
          /\ last' = [Event("resetInfo") EXCEPT !.noop = TRUE]
          /\ UNCHANGED <<app, info>>
     ELSE \E ok \in WriteOutcomes :
            CommitInfo("resetInfo", initialInfo(loadTime), NoRecord, ok)
  /\ infoIsInitial' = TRUE
  /\ UNCHANGED <<boardSide, boardIsInitial, clock, loadTime, lastScan, notifiedIds, alerts,
                 permission>>

(* ------------------------- timer and environment ---------------------- *)
\* mutant: the callback does not look the card up in notifiedIds
DueNowIgnoresSeen(b, seen, t) ==
  {id \in DOMAIN b.cards :
     /\ HasDueDate(b.cards[id]) /\ ~IsDone(b.cards[id])
     /\ dueStatus(b.cards[id], t) # "null"}

\* the cards one run of the interval callback records (and alerts)
DueNow(b, seen, t) ==
  {id \in DOMAIN b.cards :
     /\ HasDueDate(b.cards[id]) /\ ~IsDone(b.cards[id])
     /\ dueStatus(b.cards[id], t) # "null"
     /\ id \notin seen}

\* does the callback show a Notification for a card it records?
Surfaces(perm) == perm = "granted"

\* mutant: a card is recorded only when its Notification was shown
RecordedWhenSurfaced(found, perm) == IF Surfaces(perm) THEN found ELSE {}

\* the cards the callback adds to notifiedIds: notifiedIdsRef.current.add is
\* outside the test of the permission
Recorded(found, perm) == found

\* the interval callback
Tick ==
  /\ app = "mounted"
  /\ now = nextTick
  /\ LET found == DueNow(board, notifiedIds, now)
     IN /\ notifiedIds' = notifiedIds \cup Recorded(found, permission)
        /\ alerts' = IF Surfaces(permission) THEN alerts (+) SetToBag(found)
                     ELSE alerts
  /\ nextTick' = nextTick + PollMs
  /\ lastScan' = now
  /\ last' = Event("tick")
  /\ UNCHANGED <<app, board, boardIsInitial, store, renderedAt, infoSide, clock,
                 loadTime, permission, ops>>

\* time passes; a mounted page lets no instant of its interval go by unfired
Advance(d) ==
  /\ now + d <= origin + MaxSteps * StepMs
  /\ app = "mounted" => now + d <= nextTick
  /\ now' = now + d
  /\ last' = Event("advance")
  /\ UNCHANGED <<app, memory, store, infoStore, origin, quotaTight, permission, ops>>

\* the user answers the prompt of Notification.requestPermission()
DecidePermission ==
  /\ app = "mounted"
  /\ permission = "default"
  /\ permission' \in {"granted", "denied"}
  /\ last' = Event("permission")
  /\ UNCHANGED <<app, memory, store, infoStore, clock, ops>>

(* ---------------------------- specifications -------------------------- *)
\* what the form fields may hold
Titles == {<<>>, <<"\t", " ", "\n">>, <<" ", "a", " ", "b", "\n">>}
Assignees == {"", "Me", "Partner"}
InfoTexts == {<<>>, <<" ">>, <<"a">>, <<" ", "b">>}

Lifecycle == Start \/ Unload

\* Spec: the board store, its record and the page loads
Init == InitFrom({0}, FirstRecords, {"default"}, TRUE)

Next ==
  \/ Lifecycle
  \/ \E newTitle \in Titles, due \in {Missing, now + DayMs} :
       addCard("todo", newTitle, "", due)
  \/ \E cardId \in DOMAIN board.cards : toggleDone(cardId)
  \/ \E from \in ColumnIds, direction \in {"left", "right"} :
       \E cardId \in Range(board.columns[from].cardIds) :
         moveCard(cardId, from, direction)
  \/ clearBoard
  \/ Advance(PollMs)

Spec == Init /\ [][Next]_vars

\* SpecInfo: the info list store and its record
NextInfo ==
  \/ Lifecycle
  \/ \E label \in InfoTexts, detail \in InfoTexts : addInfo(label, detail)
  \/ \E id \in InfoIdsOf(info) \cup NewInfoIds : deleteInfo(id)
  \/ resetInfo
  \/ Advance(PollMs)

SpecInfo == Init /\ [][NextInfo]_vars

\* the instants picked in the date field while the scan is watched: one that
\* makes a card due soon and overdue within the run, and one that leaves it
\* without a status until the first scan has run
TimerDues == {origin + PollMs + StepMs, origin + DayMs + PollMs + 1}

\* SpecTimer: the due notification scan within one session, on a board whose
\* cards carry due dates
InitTimer == InitFrom({0}, {<<"absent", "absent">>}, {"default", "granted"}, FALSE)

NextTimer ==
  \/ Start
  \/ \E due \in TimerDues : addCard("todo", <<"a">>, "", due)
  \/ \E cardId \in {id \in DOMAIN board.cards : HasDueDate(board.cards[id])} :
       toggleDone(cardId)
  \/ clearBoard
  \/ Tick
  \/ Advance(StepMs)
  \/ DecidePermission

SpecTimer == InitTimer /\ [][NextTimer]_vars

\* SpecDue: the due status of cards whose due dates the clock runs up to
InitDue == InitFrom({0}, {<<"absent", "absent">>}, {"default"}, FALSE)

NextDue ==
  \/ Start
  \/ \E due \in {now + o : o \in DueOffsets} : addCard("todo", <<"a">>, "", due)
  \/ \E cardId \in {id \in DOMAIN board.cards : HasDueDate(board.cards[id])} :
       toggleDone(cardId)
  \/ Tick
  \/ Advance(StepMs)

SpecDue == InitDue /\ [][NextDue]_vars

\* SpecStats: the weekly load share, on boards whose cards are completed on
\* both sides of a week's end
InitStats == InitFrom(Origins, {<<"absent", "absent">>}, {"default"}, FALSE)

NextStats ==
  \/ Lifecycle
  \/ \E assignee \in Assignees : addCard("todo", <<"a">>, assignee, Missing)
  \/ \E cardId \in DOMAIN board.cards : toggleDone(cardId)
  \/ Tick
  \/ Advance(PollMs)

SpecStats == InitStats /\ [][NextStats]_vars

(* ================================ claims ============================== *)
AllCardIdsOf(b) == UNION {Range(b.columns[c].cardIds) : c \in DOMAIN b.columns}

RECURSIVE SumOver(_, _, _)
SumOver(S, b, id) ==
  IF S = {} THEN 0
  ELSE LET c == CHOOSE x \in S : TRUE
       IN Count(b.columns[c].cardIds, id) + SumOver(S \ {c}, b, id)

\* how often id occurs in the cardIds of all columns together
Occurrences(b, id) == SumOver(DOMAIN b.columns, b, id)

\* C1: columnOrder is a duplicate-free permutation of the keys of columns,
\* every id in a column's cardIds is a key of cards, and every card id occurs
\* exactly once across all columns
C1_BoardWellFormed ==
  /\ Range(board.columnOrder) = DOMAIN board.columns
  /\ Len(board.columnOrder) = Cardinality(DOMAIN board.columns)
  /\ AllCardIdsOf(board) \subseteq DOMAIN board.cards
  /\ \A id \in DOMAIN board.cards : Occurrences(board, id) = 1

\* C2: a card has completedAt exactly when it is done; a toggleDone step turns
\* a card that was not done into a done card completed now, and a done card
\* into a card that is not done and has no completedAt
C2_DoneIffCompleted ==
  \A id \in DOMAIN board.cards :
    HasCompletedAt(board.cards[id]) <=> IsDone(board.cards[id])

C2_ToggleStep ==
  \A id \in DOMAIN board.cards :
    toggleDone(id) =>
      IF IsDone(board.cards[id])
      THEN ~IsDone(board'.cards[id]) /\ ~HasCompletedAt(board'.cards[id])
      ELSE IsDone(board'.cards[id]) /\ board'.cards[id].completedAt = now

C2_CompletedAtTracksDone == [](C2_DoneIffCompleted) /\ [][C2_ToggleStep]_vars

\* one card was completed after the clock had moved, another was completed
\* and reopened
C2_Witness ==
  /\ app = "mounted"
  /\ now > origin
  /\ \E id \in DOMAIN board.cards :
       IsDone(board.cards[id]) /\ board.cards[id].completedAt = now
  /\ \E id \in DOMAIN board.cards :
       board.cards[id].done = "false" /\ board.cards[id].completedAt = Undef

\* C4: a failed write to local storage is swallowed: after a handler whose
\* write failed the page is still running (no error state) and its memory
\* holds the result of the mutation, which the record does not
C4_WriteFailureSwallowed ==
  (last.op \in {"addCard", "toggleDone", "moveCard", "clearBoard"} /\ ~last.wrote) =>
    (app = "mounted" /\ (store.kind = "json" => store.data # JsonBoard(board)))

\* the fallback cases of a page load
Fallback == {"absent", "empty", "garbage", "null"}

\* C5: a page load starts each store in its seed state when its record is
\* absent or malformed, without an error of its own (the page is mounted
\* when its writes went through), and otherwise in the state of the record
C5_StartStep ==
  (app = "unloaded" /\ app' # "unloaded") =>
    /\ store.kind \in Fallback => board' = initialState(now)
    /\ store.kind \notin Fallback => board' = store.data
    /\ infoStore.kind \in Fallback => info' = initialInfo(now)
    /\ infoStore.kind \notin Fallback => info' = infoStore.data
    /\ last'.wrote => app' = "mounted"

C9_ToggleTwice ==
  \A id \in DOMAIN board.cards :
    LET once == ToggleDoneUpdate(board, id, now)
        twice == ToggleDoneUpdate(once, id, now + 1)
    IN /\ IsDone(once.cards[id]) # IsDone(board.cards[id])
       /\ IsDone(twice.cards[id]) = IsDone(board.cards[id])
       /\ ~HasCompletedAt(board.cards[id]) => ~HasCompletedAt(twice.cards[id])
       /\ DOMAIN twice.cards = DOMAIN board.cards
       /\ \A other \in DOMAIN board.cards \ {id} :
            twice.cards[other] = board.cards[other]
       /\ twice.columns = board.columns
       /\ twice.columnOrder = board.columnOrder

\* the last two handlers toggled the same card
C9_Witness ==
  /\ app = "mounted"
  /\ ops = 2 /\ last.op = "toggleDone"
  /\ \E id \in DOMAIN board.cards :
       board.cards[id].done = "false" /\ board.cards[id].completedAt = Undef

\* a title that trims to empty: nothing but white space
AllWhitespace(title) == \A i \in 1..Len(title) : title[i] \in Whitespace

\* the titles of the form that trim to empty
BlankTitles == {t \in Titles : AllWhitespace(t)}

\* C10: a step that changes the board, its record or the mounted app is no
\* addCard with a title that trims to empty, whatever the target column
C10_EmptyTitleStep ==
  \/ /\ board' = board
     /\ store' = store
     /\ app' = app
  \/ \A columnId \in ColumnIds, newTitle \in BlankTitles,
        assignee \in Assignees, due \in {Missing, now + DayMs} :
       ~addCard(columnId, newTitle, assignee, due)

C10_EmptyTitleIsNoOp == [][C10_EmptyTitleStep]_vars

\* addCard has just returned early
C10_Witness ==
  /\ app = "mounted"
  /\ last.op = "addCard" /\ last.noop
  /\ DOMAIN board.cards = SeedIds

\* C3: between two resets of a session no card is alerted twice, and only
\* clearBoard takes an id out of the seen-set of a running page
C3_AtMostOneAlert == \A id \in BagToSet(alerts) : CopiesIn(id, alerts) <= 1

C3_SeenKeptStep ==
  (app = "mounted" /\ app' = "mounted" /\ ~clearBoard) =>
    notifiedIds \subseteq notifiedIds'

C3_OneAlertPerCard == [](C3_AtMostOneAlert) /\ [][C3_SeenKeptStep]_vars

\* a card alerted while it was due soon has been completed and reopened, is
\* overdue by now, and a later scan has passed over it
C3_Witness ==
  /\ app = "mounted"
  /\ last.op = "tick"
  /\ \E id \in NewIds \cap DOMAIN board.cards :
       /\ CopiesIn(id, alerts) = 1
       /\ board.cards[id].done = "false"
       /\ dueStatus(board.cards[id], now) = "overdue"
       /\ dueStatus(board.cards[id], now - PollMs) = "soon"

\* the status the claim gives a card at instant t
ClaimedStatus(card, t) ==
  IF IsDone(card) \/ ~HasDueDate(card) THEN "null"
  ELSE IF card.dueDate <= t THEN "overdue"
  ELSE IF 0 < card.dueDate - t /\ card.dueDate - t <= 24 * HourMs THEN "soon"
  ELSE "null"

\* C6: dueStatus is none for a card that is done or has no due date, else
\* overdue when dueDate <= now, soon when 0 < dueDate - now <= 24 h, none
\* otherwise; the three boundary cases
C6_DueStatus ==
  \A id \in DOMAIN board.cards :
    LET card == board.cards[id]
    IN /\ dueStatus(card, now) = ClaimedStatus(card, now)
       /\ (HasDueDate(card) /\ ~IsDone(card)) =>
            /\ card.dueDate = now => dueStatus(card, now) = "overdue"
            /\ card.dueDate = now + 24 * HourMs => dueStatus(card, now) = "soon"
            /\ card.dueDate = now + 24 * HourMs + 1 => dueStatus(card, now) = "null"

\* an open card is due in exactly 24 hours
C6_Witness ==
  \E id \in DOMAIN board.cards :
    /\ ~IsDone(board.cards[id])
    /\ board.cards[id].dueDate = now + 24 * HourMs
    /\ dueStatus(board.cards[id], now) = "soon"

\* the weekly load shares the page can show: the memoised one, computed at the
\* last commit that changed the board, and one computed now
Shares == {weeklyStats(board, renderedAt), weeklyStats(board, now)}

\* C7: the two percentages are integers in 0..100 that add up to 100 when
\* something was completed, and are both 0 when nothing was
C7_PercentSum ==
  \A w \in Shares :
    /\ w.mePct \in 0..100 /\ w.partnerPct \in 0..100
    /\ w.total > 0 => w.mePct + w.partnerPct = 100
    /\ w.total = 0 => (w.mePct = 0 /\ w.partnerPct = 0)

\* both assignees completed a card this week
C7_Witness ==
  /\ app = "mounted"
  /\ weeklyStats(board, renderedAt).total = 2
  /\ weeklyStats(board, renderedAt).mePct = 50

\* the cards of who the claim counts in the window [start, end]
ClaimedCount(b, who, start, end) ==
  Cardinality({id \in DOMAIN b.cards :
                 /\ b.cards[id].done = "true"
                 /\ b.cards[id].completedAt # Missing /\ b.cards[id].completedAt # Undef
                 /\ start <= b.cards[id].completedAt /\ b.cards[id].completedAt <= end
                 /\ b.cards[id].assignee = who})

\* the seed board after toggleDone("c2") at instant t
SeedWithC2Done(load, t) ==
  [initialState(load) EXCEPT !.cards["c2"].done = "true",
                             !.cards["c2"].completedAt = t]

\* C8: the counts are the numbers of done cards of Me and of Partner completed
\* within the Monday-to-Sunday window (both ends included), the total is their
\* sum; on the seed board with c2 just toggled done the share is 1, 0, 1, 100, 0
C8_Counts ==
  /\ \A w \in Shares :
       /\ w.me = ClaimedCount(board, "Me", w.start, w.end)
       /\ w.partner = ClaimedCount(board, "Partner", w.start, w.end)
       /\ w.total = w.me + w.partner
  /\ \A ref \in {renderedAt, now} :
       /\ weeklyStats(board, ref).start = ref - (ref % WeekMs)
       /\ weeklyStats(board, ref).end = weeklyStats(board, ref).start + WeekMs - 1
  /\ board = SeedWithC2Done(loadTime, renderedAt) =>
       LET w == weeklyStats(board, renderedAt)
       IN /\ w.me = 1 /\ w.partner = 0 /\ w.total = 1
          /\ w.mePct = 100 /\ w.partnerPct = 0

\* c2 of the seed board was toggled done in the last millisecond of a week
C8_Witness ==
  /\ app = "mounted"
  /\ board = SeedWithC2Done(loadTime, renderedAt)
  /\ renderedAt = weeklyStats(board, renderedAt).end

\* the titles of the form that addCard accepts
RealTitles == Titles \ BlankTitles

\* C11: addCard with a title that does not trim to empty adds exactly one
\* card, under an id that was no key of cards and in no column, not done and
\* without completedAt, at index 0 of the target column, and changes no other
\* card and no other position of a column
C11_AddCardStep ==
  \A columnId \in ColumnIds, newTitle \in RealTitles, assignee \in Assignees,
     due \in {Missing, now + DayMs} :
    addCard(columnId, newTitle, assignee, due) =>
      \E id \in DOMAIN board'.cards :
        /\ id \notin DOMAIN board.cards
        /\ id \notin AllCardIdsOf(board)
        /\ DOMAIN board'.cards = DOMAIN board.cards \cup {id}
        /\ ~IsDone(board'.cards[id])
        /\ ~HasCompletedAt(board'.cards[id])
        /\ board'.columns[columnId].cardIds =
             <<id>> \o board.columns[columnId].cardIds
        /\ \A c \in ColumnIds \ {columnId} : board'.columns[c] = board.columns[c]
        /\ \A k \in DOMAIN board.cards : board'.cards[k] = board.cards[k]
        /\ board'.columnOrder = board.columnOrder

C11_AddCardAddsFreshCard == [][C11_AddCardStep]_vars

\* the column next to from in the column order, "none" past either end
Adjacent(order, from, direction) ==
  LET k == CHOOSE i \in 1..Len(order) : order[i] = from
      j == IF direction = "left" THEN k - 1 ELSE k + 1
  IN IF j \in 1..Len(order) THEN order[j] ELSE "none"

\* C12: moveCard to the left or right takes the card out of the column it is
\* in and puts it at index 0 of the adjacent column, keeping the order of all
\* other ids; from the first column to the left and from the last to the
\* right it changes nothing
C12_MoveStep ==
  \A from \in ColumnIds, direction \in {"left", "right"} :
    \A cardId \in Range(board.columns[from].cardIds) :
      moveCard(cardId, from, direction) =>
        LET to == Adjacent(board.columnOrder, from, direction)
        IN IF to = "none"
           THEN board' = board /\ store' = store
           ELSE /\ cardId \notin Range(board'.columns[from].cardIds)
                /\ board'.columns[from].cardIds =
                     SelectSeq(board.columns[from].cardIds, LAMBDA x : x # cardId)
                /\ board'.columns[to].cardIds =
                     <<cardId>> \o board.columns[to].cardIds
                /\ \A c \in ColumnIds \ {from, to} :
                     board'.columns[c] = board.columns[c]
                /\ board'.cards = board.cards
                /\ board'.columnOrder = board.columnOrder

C12_DirectionalMove == [][C12_MoveStep]_vars

\* c2 was moved to the right into the last column, and a further moveCard
\* found no column to go to
C12_Witness ==
  /\ app = "mounted"
  /\ last.op = "moveCard" /\ last.noop
  /\ board.columns["done"].cardIds = <<"c2">>
  /\ board.columns["doing"].cardIds = <<>>

\* the instants at which the page may be loaded again
RestartInstants == {now, now + PollMs}

\* C13: whenever the page is at rest after its saves, the board record is the
\* serialised board in memory, and a page load from it gives a board equal to
\* the one in memory (keys whose value is undefined counting as absent)
C13_RoundTrip ==
  app = "mounted" =>
    /\ store.kind = "json" /\ store.data = JsonBoard(board)
    /\ \A t \in RestartInstants : JsonBoard(InitialBoard(store, t)) = JsonBoard(board)

\* the seed board as the claim lists it: cards c1, c2, c3, none of them done,
\* todo = [c1, c3], doing = [c2], done = [], columns in the order todo, doing,
\* done
IsSeedBoard(b) ==
  /\ DOMAIN b.cards = {"c1", "c2", "c3"}
  /\ \A id \in DOMAIN b.cards :
       b.cards[id].id = id /\ ~IsDone(b.cards[id]) /\ ~HasCompletedAt(b.cards[id])
  /\ b.columns["todo"].cardIds = <<"c1", "c3">>
  /\ b.columns["doing"].cardIds = <<"c2">>
  /\ b.columns["done"].cardIds = <<>>
  /\ b.columnOrder = <<"todo", "doing", "done">>

\* C14: a reset leaves the seed board in memory and an empty seen-set, of the
\* record it leaves nothing of the board that was stored (the record is absent
\* or holds the seed), and a page load right after it starts from the seed
C14_ResetStep ==
  clearBoard =>
    /\ IsSeedBoard(board')
    /\ board' = initialState(loadTime)
    /\ notifiedIds' = {}
    /\ store'.kind = "absent" \/ (store'.kind = "json" /\ store'.data = board')
    /\ \A t \in {now, now + PollMs} :
         /\ IsSeedBoard(InitialBoard(store', t))
         /\ InitialBoard(store', t) \in {initialState(loadTime), initialState(t)}

C14_ResetRestoresSeed == [][C14_ResetStep]_vars

\* a reset has replaced a board that had changed, after the first run of the
\* scan, and the save that followed it has written the seed
C14_Witness ==
  /\ app = "mounted"
  /\ last.op = "clearBoard" /\ ~last.noop
  /\ now >= loadTime + PollMs
  /\ notifiedIds = {}
  /\ store.kind = "json"
  /\ IsSeedBoard(board)

\* C15 (ids): the ids of the items of the list are pairwise distinct
C15_IdsDistinct ==
  \A j, k \in 1..Len(info) : info[j].id = info[k].id => j = k

\* C15 (steps): addInfo changes nothing when label or detail trims to empty
\* and else puts one item with an id not in the list at index 0; deleteInfo
\* takes out exactly the item with the id, keeps the order of the others, and
\* changes nothing of the list when no item has the id
C15_InfoStep ==
  /\ \A label \in InfoTexts, detail \in InfoTexts :
       addInfo(label, detail) =>
         IF Trim(label) = <<>> \/ Trim(detail) = <<>>
         THEN info' = info /\ infoStore' = infoStore
         ELSE \E id \in InfoIdsOf(info') \ InfoIdsOf(info) :
                info' = <<[id |-> id, label |-> Trim(label),
                           detail |-> Trim(detail)]>> \o info
  /\ \A id \in InfoIdsOf(info) \cup NewInfoIds :
       deleteInfo(id) =>
         /\ info' = SelectSeq(info, LAMBDA x : x.id # id)
         /\ id \in InfoIdsOf(info) => Len(info') = Len(info) - 1
         /\ id \notin InfoIdsOf(info) => info' = info

\* C15: both parts
C15_InfoList == [](C15_IdsDistinct) /\ [][C15_InfoStep]_vars

\* C16: whatever the user does to the board, a card that waits for the scan
\* (not done, with a due status, not in the seen-set) never finds the last run
\* of the scan, or the page load, more than 60 seconds back
C16_ScanWithinInterval ==
  app = "mounted" =>
    \A id \in DueNow(board, notifiedIds, now) : now - lastScan <= PollMs

\* the cards a scan at instant t finds with a due status
WithStatus(b, t) ==
  {id \in DOMAIN b.cards :
     /\ HasDueDate(b.cards[id]) /\ ~IsDone(b.cards[id])
     /\ dueStatus(b.cards[id], t) # "null"}

\* C17: a scan puts every card it finds with a due status into the seen-set,
\* also when the permission is not granted and no alert is shown, and no step
\* shows an alert for a card that is in the seen-set
C17_SeenStep ==
  /\ Tick =>
       /\ notifiedIds' = notifiedIds \cup WithStatus(board, now)
       /\ permission # "granted" => alerts' = alerts
  /\ \A id \in notifiedIds : CopiesIn(id, alerts') <= CopiesIn(id, alerts)

C17_SeenWithoutAlert == [][C17_SeenStep]_vars

\* a card was recorded while the permission was not granted; the permission
\* is granted by now, a later scan has found the card with a due status again,
\* and it has no alert
C17_Witness ==
  /\ app = "mounted"
  /\ last.op = "tick"
  /\ permission = "granted"
  /\ \E id \in notifiedIds \cap WithStatus(board, now) : ~BagIn(id, alerts)

====
